---- MODULE Spec2Model ----
(***************************************************************************)
(* Admission / occupancy subsystem of the tennis bot (src/bot.py).         *)
(*                                                                         *)
(* State: the rows of the tables games and game_applications, the          *)
(* per-user FSM context, and the handler invocations that are in flight.   *)
(* aiogram runs every update as its own asyncio task and every handler     *)
(* opens its own sqlite connection, so the handlers interleave at their    *)
(* awaits.  A handler is split at the awaits between which another         *)
(* handler's commit can change what it has read: each SELECT is one step,  *)
(* each write with its commit is one step (sqlite serialises writers, and  *)
(* a reader sees either all or nothing of a committed transaction).        *)
(***************************************************************************)
EXTENDS Naturals, Integers, Sequences, FiniteSets, Bags, TLC

\* ------------------------------------------------------------------ bounds
NumUsers == 3
MaxGames == 1
MaxApps  == 2
MaxTasks == 2

Users   == 1..NumUsers
GameIds == 1..MaxGames
AppIds  == 1..MaxApps

\* --------------------------------------------------- values the code uses
\* newgame_players_count accepts "2 игрока" or "4 игрока" only
PlayersCounts == {2, 4}
\* newgame_privacy
Visibilities == {"public", "private"}
\* newgame_cmd stores creator_mode="self"; the state NewGame.creator_mode is
\* never entered, so no other value is ever written
CreatorModes == {"self"}
\* free text typed by the creator in MyGames.waiting_score
Scores == {"6-4"}
NULL == "NULL"

VARIABLES
    games,              \* table games: sequence of rows, id = index (AUTOINCREMENT)
    game_applications,  \* table game_applications: sequence of rows, id = index
    tasks,              \* bag of the handler invocations in flight (their locals)
    fsm,                \* FSMContext of each user: state and data
    answer,             \* what the step just executed answered to its caller
    outbox,             \* messages the step just executed has sent
    keyboards           \* inline keyboards the bot has sent into each user's chat

vars == <<games, game_applications, tasks, fsm, answer, outbox, keyboards>>

\* ---------------------------------------------------------------- helpers
\* the asyncio tasks in flight are interchangeable: a bag of their locals
Started(task)   == tasks (+) SetToBag({task})
Finished(task)  == tasks (-) SetToBag({task})
Moved(task, pc) == Finished(task) (+) SetToBag({[task EXCEPT !.pc = pc]})
Running(h, pc)  == {task \in BagToSet(tasks) : task.h = h /\ task.pc = pc}

\* a new update is handled by a fresh asyncio task
CanStart == BagCardinality(tasks) < MaxTasks

\* number of tasks in flight that run handler h
InFlight(h) ==
    LET RECURSIVE Sum(_)
        Sum(S) == IF S = {} THEN 0
                  ELSE LET x == CHOOSE x \in S : TRUE
                       IN  (IF x.h = h THEN CopiesIn(x, tasks) ELSE 0) + Sum(S \ {x})
    IN  Sum(BagToSet(tasks))

\* a value that may be absent (Python None, SQL NULL): <<>> or <<v>>
None == <<>>
Some(v) == <<v>>

\* float("nan"); the other floats are non-negative numbers of hundredths
NaN == -1

\* a < b on floats: every comparison with nan is False
FloatLess(a, b) == a # NaN /\ b # NaN /\ a < b

\* sqlite binds a REAL parameter that is nan as NULL
BindReal(x) == IF x = Some(NaN) THEN None ELSE x

\* the keys the handlers keep in the FSM data
DataKeys ==
    {"creator_mode", "court_id", "match_date", "match_time", "match_end_time",
     "duration_minutes", "payment_type", "game_type", "rating_min", "rating_max",
     "players_count", "is_court_booked", "visibility",
     "filter_date", "filter_time_from", "only_home", "offset"}

\* state.clear(): no state, empty data
NoFsm == [state |-> "None", score_game_id |-> 0, data |-> [k \in DataKeys |-> None]]

\* no inline keyboard in the chat yet
NoKeyboards == [times |-> {}, duration |-> FALSE, cards |-> {}]

Msg(to, kind) == [to |-> to, kind |-> kind]

\* the organizer's reply after an accept: "... {occupied} из {total} участников."
OccupancyReply(to, occupancy) ==
    [to |-> to, kind |-> "accept_reply",
     occupied |-> occupancy[1], total |-> occupancy[2]]

\* faulty variant: a failed send ends the handler before its answer
AnswerAfterSends_raised(reply, all_sent) == IF all_sent THEN reply ELSE "error"

\* try: <sends> except Exception as e: logger.exception(...): a failed send
\* is logged, and the handler goes on to its callback.answer
AnswerAfterSends(reply, all_sent) == reply

\* rows of game_applications of game g with the given status
AppsOf(apps, g, st) ==
    {i \in DOMAIN apps : apps[i].game_id = g /\ apps[i].status = st}

\* faulty variant: pending applications hold a slot as well
get_game_occupancy_with_pending(gs, apps, g) ==
    IF g \notin DOMAIN gs
    THEN <<0, 0>>
    ELSE LET base == IF gs[g].creator_mode = "self" THEN 1 ELSE 0
             accepted_count == Cardinality(AppsOf(apps, g, "accepted")
                                           \cup AppsOf(apps, g, "pending"))
         IN  <<base + accepted_count, gs[g].players_count>>

\* get_game_occupancy: (occupied, total) recomputed from the rows
get_game_occupancy(gs, apps, g) ==
    IF g \notin DOMAIN gs
    THEN <<0, 0>>
    ELSE LET base == IF gs[g].creator_mode = "self" THEN 1 ELSE 0
             accepted_count == Cardinality(AppsOf(apps, g, "accepted"))
         IN  <<base + accepted_count, gs[g].players_count>>

\* faulty variant: applicants still waiting for a decision are participants
get_game_participant_ids_with_pending(gs, apps, g) ==
    IF g \notin DOMAIN gs
    THEN {}
    ELSE (IF gs[g].creator_mode = "self" THEN {gs[g].creator_id} ELSE {})
         \cup {apps[i].applicant_id : i \in AppsOf(apps, g, "accepted")
                                           \cup AppsOf(apps, g, "pending")}

\* get_game_participant_ids(game_id, include_creator=True)
get_game_participant_ids(gs, apps, g) ==
    IF g \notin DOMAIN gs
    THEN {}
    ELSE (IF gs[g].creator_mode = "self" THEN {gs[g].creator_id} ELSE {})
         \cup {apps[i].applicant_id : i \in AppsOf(apps, g, "accepted")}

\* ------------------------------------------------------------------- Init
Init ==
    /\ games = <<>>
    /\ game_applications = <<>>
    /\ tasks = EmptyBag
    /\ fsm = [u \in Users |-> NoFsm]
    /\ answer = "-"
    /\ outbox = {}
    /\ keyboards = [u \in Users |-> NoKeyboards]

\* ------------------------------------------------------------ create_game
\* the columns of games declared NOT NULL that create_game fills from its
\* arguments (creator_id is always the sender of the message)
NotNullColumns == {"court_id", "match_date", "match_time", "game_type", "players_count"}

\* sqlite refuses the INSERT (IntegrityError: NOT NULL constraint failed)
NotNullViolated(d) == \E k \in NotNullColumns : d[k] = None

\* the row written by INSERT INTO games (...) VALUES (..., 1, 'scheduled');
\* d holds the arguments, each one absent or present
GameRow(creator_id, d, comment) ==
    [creator_id |-> creator_id,
     court_id |-> d.court_id[1],
     match_date |-> d.match_date[1],
     match_time |-> d.match_time[1],
     match_end_time |-> d.match_end_time,
     duration_minutes |-> d.duration_minutes,
     game_type |-> d.game_type[1],
     rating_min |-> BindReal(d.rating_min),
     rating_max |-> BindReal(d.rating_max),
     players_count |-> d.players_count[1],
     comment |-> comment,
     is_court_booked |-> IF d.is_court_booked = Some(TRUE) THEN 1 ELSE 0,
     visibility |-> IF d.visibility = None THEN "public" ELSE d.visibility[1],
     creator_mode |-> IF d.creator_mode = None THEN "self" ELSE d.creator_mode[1],
     payment_type |-> d.payment_type,
     is_active |-> 1, status |-> "scheduled", score |-> NULL]

\* what a wizard run that asked every question hands over: the values the
\* admission handlers read, and one fixed value for each other column
CollectedData(players_count, visibility, creator_mode) ==
    [k \in DataKeys |->
        CASE k = "creator_mode" -> Some(creator_mode)
          [] k = "court_id" -> Some(1)
          [] k = "match_date" -> Some(<<31, 12, 2024>>)
          [] k = "match_time" -> Some(<<10, 0>>)
          [] k = "match_end_time" -> Some(<<11, 0>>)
          [] k = "duration_minutes" -> Some(60)
          [] k = "payment_type" -> Some("split")
          [] k = "game_type" -> Some("training")
          [] k = "rating_min" -> None
          [] k = "rating_max" -> None
          [] k = "players_count" -> Some(players_count)
          [] k = "is_court_booked" -> Some(FALSE)
          [] k = "visibility" -> Some(visibility)
          [] OTHER -> None]

\* INSERT INTO games (...) VALUES (..., 1, 'scheduled'), called by the last
\* wizard step with the values the wizard collected
create_game(creator_id, players_count, visibility, creator_mode) ==
    /\ Len(games) < MaxGames
    /\ UNCHANGED keyboards
    /\ games' = Append(games,
         GameRow(creator_id, CollectedData(players_count, visibility, creator_mode), None))
    /\ answer' = "created"
    /\ outbox' = {}
    /\ UNCHANGED <<game_applications, tasks, fsm>>

\* ---------------------------------------------------- apply_game_callback
\* faulty variant: a full game is closed for applications
GameUnavailable_full(gs, g) ==
    \/ g \notin DOMAIN gs
    \/ gs[g].is_active # 1
    \/ gs[g].visibility # "public"
    \/ get_game_occupancy(gs, game_applications, g)[1] >= gs[g].players_count

\* faulty variant: private games take applications too
GameUnavailable_any_visibility(gs, g) ==
    \/ g \notin DOMAIN gs
    \/ gs[g].is_active # 1

\* if not game or game["is_active"] != 1 or game["visibility"] != "public"
GameUnavailable(gs, g) ==
    \/ g \notin DOMAIN gs
    \/ gs[g].is_active # 1
    \/ gs[g].visibility # "public"

\* faulty variant: the creator may apply to the own game
IsOwnGame_never(creator_id, u) == FALSE

\* if game["creator_id"] == callback.from_user.id
IsOwnGame(creator_id, u) == creator_id = u

\* first await: SELECT id, creator_id, visibility, is_active FROM games
apply_game_select_game(u, g) ==
    /\ CanStart
    /\ UNCHANGED keyboards
    /\ Len(game_applications) + InFlight("apply_game_callback") < MaxApps
    /\ outbox' = {}
    /\ UNCHANGED <<games, game_applications, fsm>>
    /\ IF GameUnavailable(games, g)
       THEN /\ answer' = "unavailable"
            /\ UNCHANGED tasks
       ELSE IF IsOwnGame(games[g].creator_id, u)
       THEN /\ answer' = "own_game"
            /\ UNCHANGED tasks
       ELSE /\ answer' = "-"
            /\ tasks' = Started(
                 [h |-> "apply_game_callback", u |-> u, arg |-> g, act |-> "-",
                  pc |-> "select_exists", game_id |-> g, applicant_id |-> u,
                  creator_id |-> games[g].creator_id])

\* faulty variant: only pending and accepted rows count as an existing application
ApplicationExists_open(apps, g, u) ==
    \E i \in DOMAIN apps :
        /\ apps[i].game_id = g /\ apps[i].applicant_id = u
        /\ apps[i].status \in {"pending", "accepted"}

\* SELECT id FROM game_applications WHERE game_id = ? AND applicant_id = ?
ApplicationExists(apps, g, u) ==
    \E i \in DOMAIN apps : apps[i].game_id = g /\ apps[i].applicant_id = u

\* second await: the existence check
apply_game_select_exists(task) ==
    /\ task \in Running("apply_game_callback", "select_exists")
    /\ UNCHANGED keyboards
    /\ outbox' = {}
    /\ UNCHANGED <<games, game_applications, fsm>>
    /\ IF ApplicationExists(game_applications, task.game_id, task.u)
       THEN /\ answer' = "already_applied"
            /\ tasks' = Finished(task)
       ELSE /\ answer' = "-"
            /\ tasks' = Moved(task, "insert")

\* INSERT INTO game_applications (game_id, applicant_id); commit; then the
\* card for the creator (a failed send is logged and swallowed) and the answer
apply_game_insert(task, card_sent) ==
    /\ task \in Running("apply_game_callback", "insert")
    /\ UNCHANGED keyboards
    /\ game_applications' = Append(game_applications,
         [game_id |-> task.game_id, applicant_id |-> task.u, status |-> "pending"])
    /\ outbox' = IF card_sent THEN {Msg(task.creator_id, "card")} ELSE {}
    /\ answer' = AnswerAfterSends("sent", card_sent)
    /\ tasks' = Finished(task)
    /\ UNCHANGED <<games, fsm>>

\* -------------------------------------------------- app_decision_callback
\* faulty variant: the organizer check is missing
NotOrganizer_anyone(u, creator_id) == FALSE

\* callback.from_user.id != creator_id
NotOrganizer(u, creator_id) == u # creator_id

\* faulty variant: the status check is missing
AlreadyProcessed_never(status) == FALSE

\* status != "pending"
AlreadyProcessed(status) == status # "pending"

\* first await: SELECT ga.*, g.creator_id FROM game_applications ga JOIN games g
app_decision_select(u, a, action) ==
    /\ CanStart
    /\ UNCHANGED keyboards
    /\ outbox' = {}
    /\ UNCHANGED <<games, game_applications, fsm>>
    /\ IF a \notin DOMAIN game_applications
       THEN /\ answer' = "app_not_found"
            /\ UNCHANGED tasks
       ELSE LET app_row == game_applications[a]
                creator == games[app_row.game_id].creator_id
            IN  IF NotOrganizer(u, creator)
                THEN /\ answer' = "not_organizer"
                     /\ UNCHANGED tasks
                ELSE IF AlreadyProcessed(app_row.status)
                THEN /\ answer' = "already_processed"
                     /\ UNCHANGED tasks
                ELSE /\ answer' = "-"
                     /\ tasks' = Started(
                          [h |-> "app_decision_callback", u |-> u, arg |-> a,
                           act |-> action, pc |-> "update",
                           game_id |-> app_row.game_id,
                           applicant_id |-> app_row.applicant_id,
                           creator_id |-> creator])

\* faulty variant: the two outcomes are swapped
NewStatus_swapped(action) == IF action = "accept" THEN "rejected" ELSE "accepted"

\* new_status = "accepted" if action == "accept" else "rejected"
NewStatus(action) == IF action = "accept" THEN "accepted" ELSE "rejected"

\* faulty variant: WHERE applicant_id = ?, every application of the applicant
UpdateStatus_of_applicant(apps, a, new_status) ==
    [i \in DOMAIN apps |->
        IF apps[i].applicant_id = apps[a].applicant_id
        THEN [apps[i] EXCEPT !.status = new_status]
        ELSE apps[i]]

\* UPDATE game_applications SET status = ? WHERE id = ?
UpdateStatus(apps, a, new_status) == [apps EXCEPT ![a].status = new_status]

\* the UPDATE and its commit; for a reject also the two sends of the single
\* try block (the first failing send skips the second) and the answer
app_decision_update(task, n_sent) ==
    /\ task \in Running("app_decision_callback", "update")
    /\ UNCHANGED keyboards
    /\ game_applications' =
         UpdateStatus(game_applications, task.arg, NewStatus(task.act))
    /\ UNCHANGED <<games, fsm>>
    /\ IF NewStatus(task.act) = "rejected"
       THEN /\ outbox' = (IF n_sent >= 1 THEN {Msg(task.applicant_id, "rejected")} ELSE {})
                         \cup (IF n_sent >= 2 THEN {Msg(task.u, "reject_reply")} ELSE {})
            /\ answer' = AnswerAfterSends("saved", n_sent = 2)
            /\ tasks' = Finished(task)
       ELSE /\ n_sent = 0
            /\ outbox' = {}
            /\ answer' = "-"
            /\ tasks' = Moved(task, "notify")

\* after an accept: the participants and the occupancy are read again, then
\* three try blocks (organizer, accepted applicant, the other participants)
app_decision_notify(task, organizer_sent, applicant_sent, others_sent) ==
    /\ task \in Running("app_decision_callback", "notify")
    /\ UNCHANGED keyboards
    /\ LET participant_ids ==
               get_game_participant_ids(games, game_applications, task.game_id)
           others == participant_ids \ {task.applicant_id, task.creator_id}
           occupancy == get_game_occupancy(games, game_applications, task.game_id)
       IN  /\ others_sent \subseteq others
           /\ outbox' = (IF organizer_sent
                         THEN {OccupancyReply(task.u, occupancy)} ELSE {})
                        \cup (IF applicant_sent
                              THEN {Msg(task.applicant_id, "accepted")} ELSE {})
                        \cup {Msg(p, "joined") : p \in others_sent}
           /\ answer' = AnswerAfterSends("saved",
                 organizer_sent /\ applicant_sent /\ others_sent = others)
    /\ tasks' = Finished(task)
    /\ UNCHANGED <<games, game_applications, fsm>>

\* --------------------------------------------------- cancel_game_callback
\* the connection opened by cancel_game_callback never sets
\* db.row_factory = aiosqlite.Row, so fetchone() returns a plain tuple
cancel_row_factory == "tuple"

\* faulty variant: every row can be indexed by a column name
RowHasColumnNames_always(row_factory) == TRUE

\* row["creator_id"]: a tuple cannot be indexed by a column name (TypeError)
RowHasColumnNames(row_factory) == row_factory = "Row"

\* UPDATE games SET status = 'cancelled', is_active = 0 WHERE id = ?
CancelGameRow(gs, g) ==
    [gs EXCEPT ![g].status = "cancelled", ![g].is_active = 0]

\* UPDATE game_applications SET status = 'cancelled'
\*   WHERE game_id = ? AND status = 'pending'
CancelPendingApplications(apps, g) ==
    [i \in DOMAIN apps |->
        IF apps[i].game_id = g /\ apps[i].status = "pending"
        THEN [apps[i] EXCEPT !.status = "cancelled"]
        ELSE apps[i]]

cancel_game_callback(u, g) ==
    /\ outbox' = {}
    /\ UNCHANGED keyboards
    /\ UNCHANGED <<tasks, fsm>>
    /\ IF g \notin DOMAIN games
       THEN /\ answer' = "game_not_found"
            /\ UNCHANGED <<games, game_applications>>
       ELSE IF ~RowHasColumnNames(cancel_row_factory)
       THEN \* the handler dies on row["creator_id"]; nothing was written
            /\ answer' = "TypeError"
            /\ UNCHANGED <<games, game_applications>>
       ELSE IF games[g].creator_id # u
       THEN /\ answer' = "not_your_game"
            /\ UNCHANGED <<games, game_applications>>
       ELSE IF games[g].status = "cancelled"
       THEN /\ answer' = "already_cancelled"
            /\ UNCHANGED <<games, game_applications>>
       ELSE /\ games' = CancelGameRow(games, g)
            /\ game_applications' = CancelPendingApplications(game_applications, g)
            /\ answer' = "cancelled"

\* ----------------------------------------------------- set_score_callback
\* only the creator is let into MyGames.waiting_score; the status of the
\* game is deliberately not checked
\* faulty variant: any user is let into the score entry of a game
ScoreByOtherUser_never(creator_id, u) == FALSE

\* if game_row["creator_id"] != callback.from_user.id
ScoreByOtherUser(creator_id, u) == creator_id # u

set_score_callback(u, g) ==
    /\ outbox' = {}
    /\ UNCHANGED keyboards
    /\ UNCHANGED <<games, game_applications, tasks>>
    /\ IF g \notin DOMAIN games
       THEN /\ answer' = "game_not_found"
            /\ UNCHANGED fsm
       ELSE IF ScoreByOtherUser(games[g].creator_id, u)
       THEN /\ answer' = "not_your_game"
            /\ UNCHANGED fsm
       ELSE \* state.update_data(score_game_id=...), state.set_state(...)
            /\ fsm' = [fsm EXCEPT ![u].state = "MyGames.waiting_score",
                                  ![u].score_game_id = g]
            /\ answer' = "score_prompt"

\* ------------------------------------------- mygames_waiting_score_handler
\* UPDATE games SET score = ?, status = 'finished' WHERE id = ? AND creator_id = ?
SaveScore(gs, g, u, score_text) ==
    [i \in DOMAIN gs |->
        IF i = g /\ gs[i].creator_id = u
        THEN [gs[i] EXCEPT !.score = score_text, !.status = "finished"]
        ELSE gs[i]]

mygames_waiting_score_handler(u, score_text) ==
    /\ fsm[u].state = "MyGames.waiting_score"
    /\ UNCHANGED keyboards
    /\ outbox' = {}
    /\ UNCHANGED <<game_applications, tasks>>
    /\ fsm' = [fsm EXCEPT ![u] = NoFsm]
    /\ IF fsm[u].score_game_id = 0
       THEN /\ answer' = "no_game_id"
            /\ UNCHANGED games
       ELSE /\ games' = SaveScore(games, fsm[u].score_game_id, u, score_text)
            /\ answer' = "score_saved"

\* ------------------------------------------------------------------- Next
Actions == {"accept", "reject"}

Next ==
    \/ \E u \in Users, pc \in PlayersCounts, v \in Visibilities, m \in CreatorModes :
           create_game(u, pc, v, m)
    \/ \E u \in Users, g \in GameIds : apply_game_select_game(u, g)
    \/ \E task \in BagToSet(tasks) : apply_game_select_exists(task)
    \/ \E task \in BagToSet(tasks), card_sent \in BOOLEAN : apply_game_insert(task, card_sent)
    \/ \E u \in Users, a \in AppIds, action \in Actions : app_decision_select(u, a, action)
    \/ \E task \in BagToSet(tasks), n_sent \in 0..2 : app_decision_update(task, n_sent)
    \/ \E task \in BagToSet(tasks), organizer_sent \in BOOLEAN, applicant_sent \in BOOLEAN,
          others_sent \in SUBSET Users :
           app_decision_notify(task, organizer_sent, applicant_sent, others_sent)
    \/ \E u \in Users, g \in GameIds : cancel_game_callback(u, g)
    \/ \E u \in Users, g \in GameIds : set_score_callback(u, g)
    \/ \E u \in Users, s \in Scores : mygames_waiting_score_handler(u, s)

Spec == Init /\ [][Next]_vars

\* ------------------------------------------------ get_game_occupancy alone
\* get_game_occupancy reads creator_mode and counts every value but 'self' as
\* a creator who does not play; newgame_creator_mode is the handler that
\* stores 'others'. The function is applied to stored rows of either mode.
StoredCreatorModes == {"self", "others"}

InitOccupancy ==
    /\ games \in {<<GameRow(1, CollectedData(pc, "public", m), None)>>
                    : pc \in PlayersCounts, m \in StoredCreatorModes}
    /\ game_applications \in
         {[i \in 1..n |-> [game_id |-> 1, applicant_id |-> i + 1, status |-> "pending"]]
            : n \in 0..MaxApps}
    /\ tasks = EmptyBag
    /\ fsm = [u \in Users |-> NoFsm]
    /\ answer = "-"
    /\ outbox = {}
    /\ keyboards = [u \in Users |-> NoKeyboards]

NextOccupancy ==
    \/ \E u \in Users, a \in AppIds, action \in Actions : app_decision_select(u, a, action)
    \/ \E task \in BagToSet(tasks), n_sent \in 0..2 : app_decision_update(task, n_sent)
    \/ \E task \in BagToSet(tasks), organizer_sent \in BOOLEAN, applicant_sent \in BOOLEAN,
          others_sent \in SUBSET Users :
           app_decision_notify(task, organizer_sent, applicant_sent, others_sent)

SpecOccupancy == InitOccupancy /\ [][NextOccupancy]_vars

\* ------------------------------------------- decisions on two games
\* two stored games, the second one of the same or of another creator, and
\* one pending application on each, both of the same applicant
TwoGamesCreators == {1, 2}
TwoGamesApplicant == 3

InitTwoGames ==
    /\ games \in {<<GameRow(1, CollectedData(pc1, "public", "self"), None),
                    GameRow(c2, CollectedData(pc2, "public", "self"), None)>>
                    : pc1 \in PlayersCounts, pc2 \in PlayersCounts, c2 \in TwoGamesCreators}
    /\ game_applications =
         [g \in 1..2 |->
            [game_id |-> g, applicant_id |-> TwoGamesApplicant, status |-> "pending"]]
    /\ tasks = EmptyBag
    /\ fsm = [u \in Users |-> NoFsm]
    /\ answer = "-"
    /\ outbox = {}
    /\ keyboards = [u \in Users |-> NoKeyboards]

NextTwoGames ==
    \/ \E u \in Users, a \in AppIds, action \in Actions : app_decision_select(u, a, action)
    \/ \E task \in BagToSet(tasks), n_sent \in 0..2 : app_decision_update(task, n_sent)
    \/ \E task \in BagToSet(tasks), organizer_sent \in BOOLEAN, applicant_sent \in BOOLEAN,
          others_sent \in SUBSET Users :
           app_decision_notify(task, organizer_sent, applicant_sent, others_sent)

SpecTwoGames == InitTwoGames /\ [][NextTwoGames]_vars

\* ======================================================================
\* The /newgame wizard
\* ======================================================================
\* ------------------------------------------------------------------ bounds
MaxDay     == 1     \* the clock shows the days 1..MaxDay
MaxWizards == 1     \* users with a profile: 1..MaxWizards

\* MAX_MATCH_DAYS_AHEAD = 90
MAX_MATCH_DAYS_AHEAD == 90

\* get_user(id) returns a row: the users who passed the onboarding
Profiles == {u \in Users : u <= MaxWizards}

\* get_active_courts(): the courts table as seeded, short_name -> id
ActiveCourts == [court1 |-> 1]

\* --------------------------------------------------------------- the clock
\* "HH:MM" as the pair <<HH, MM>>; text order of the strings is the order of
\* the pairs
Minutes(hhmm) == hhmm[1] * 60 + hhmm[2]

\* strftime("%H:%M") of a time of day given in minutes
Label(minutes) == <<minutes \div 60, minutes % 60>>

\* get_moscow_now(): the readings of the clock the handlers are run at
ClockTimes == {<<9, 0>>, <<23, 45>>}
Clock == [day : 1..MaxDay, time : ClockTimes]

\* lengths of the months of 2025
MonthLengths == <<31, 28, 31, 30, 31, 30, 31, 31, 30, 31, 30, 31>>

RECURSIVE DayInYear(_, _)
DayInYear(k, month) ==
    IF k <= MonthLengths[month] THEN <<k, month, 2025>>
    ELSE DayInYear(k - MonthLengths[month], month + 1)

\* match_date_obj.strftime("%d.%m.%Y"): "DD.MM.YYYY" as <<DD, MM, YYYY>>;
\* day 1 of the clock is 30.12.2024
strftime(day) == IF day <= 2 THEN <<29 + day, 12, 2024>> ELSE DayInYear(day - 2, 1)

CalendarDays == 1..(MaxDay + MAX_MATCH_DAYS_AHEAD + 2)

\* date(year, month, day): the day of the calendar, 0 for ValueError
date(d, m, y) ==
    IF \E n \in CalendarDays : strftime(n) = <<d, m, y>>
    THEN CHOOSE n \in CalendarDays : strftime(n) = <<d, m, y>>
    ELSE 0

\* ------------------------------------------------------- what users type
\* a message text is one of: a word (any text that is neither of the
\* following), a text matching ^\d{1,2}:\d{2}$, a text matching
\* ^\d{2}\.\d{2}\.\d{4}$, a text float() accepts (value in hundredths)
Word(w)           == [t |-> "word", w |-> w]
TimeText(hh, mm)  == [t |-> "time", hh |-> hh, mm |-> mm]
DateText(d, m, y) == [t |-> "date", d |-> d, m |-> m, y |-> y]
FloatText(v)      == [t |-> "float", v |-> v]

IsWord(text, w) == text.t = "word" /\ text.w = w

\* texts of the buttons of the reply keyboards (transliterated; one button
\* of each keyboard that offers values of one kind) and one other text
Words ==
    {"Otmena", "court1", "Segodnya", "Vvesti datu",
     "Delim porovnu", "Trenirovka", "Bez ogranicheniy", "Da",
     "2 igroka", "Kort uzhe zabronirovan",
     "Publichny match", "Privatny match", "Propustit", "privet"}

TimeTexts == {TimeText(23, 30), TimeText(25, 0)}

DateTexts ==
    {DateText(31, 2, 2025)}
    \cup {DateText(strftime(n)[1], strftime(n)[2], strftime(n)[3])
            : n \in {MaxDay, MaxDay + MAX_MATCH_DAYS_AHEAD + 1}}

FloatTexts == {FloatText(50), FloatText(100)}

Texts == {Word(w) : w \in Words} \cup TimeTexts \cup DateTexts \cup FloatTexts

\* the texts sent at the comment step
CommentTexts == {Word("Propustit"), Word("Otmena")}

\* generate_time_keyboard offers range(48) slots of 30 minutes; these of them
SlotIndexes == {20, 47}

\* duration_kb: duration:30 .. duration:180; these of them
Durations == {60}

\* parse_time: 'HH:MM' or None
parse_time(text) ==
    IF text.t # "time" THEN None
    ELSE IF ~(0 <= text.hh /\ text.hh <= 23 /\ 0 <= text.mm /\ text.mm <= 59) THEN None
    ELSE Some(<<text.hh, text.mm>>)

\* parse_rating_value: the value (in hundredths) or None
parse_rating_value(text) ==
    IF text.t # "float" THEN None
    ELSE IF FloatLess(text.v, 100) \/ FloatLess(700, text.v) THEN None
    ELSE Some(text.v)

\* generate_time_keyboard(match_date_obj): the labels of the buttons; for
\* today the slots that are not after now are left out
generate_time_keyboard(match_date_obj, now) ==
    {Label(30 * i) : i \in {j \in SlotIndexes :
        ~(match_date_obj = now.day /\ 30 * j <= Minutes(now.time))}}

\* --------------------------------------------------------- wizard helpers
WizardStates ==
    {"NewGame.court", "NewGame.date_choice", "NewGame.date_manual", "NewGame.time",
     "NewGame.end_time", "NewGame.payment_type", "NewGame.game_type",
     "NewGame.rating_limit_choice", "NewGame.rating_min", "NewGame.rating_max",
     "NewGame.players_count", "NewGame.court_booking", "NewGame.privacy",
     "NewGame.comment"}

\* a message handler that touches nothing but the FSM context of its user
OnlyFsm == UNCHANGED <<games, game_applications, tasks, keyboards>> /\ outbox' = {}

\* faulty variant: an input that is refused ends the dialogue
Reprompt_cleared(tag) == answer' = tag /\ fsm' = [u \in Users |-> NoFsm]

\* the handler answers and returns; the dialogue stays where it is
Reprompt(tag) == answer' = tag /\ UNCHANGED fsm

\* faulty variant: one store for all users
Cleared_everyone(u) == [v \in Users |-> NoFsm]

\* state.clear()
Cleared(u) == [fsm EXCEPT ![u] = NoFsm]

\* -------------------------------------------------------------- /newgame
\* user: whether get_user finds a row of the sender in the table users
newgame_cmd(u, user) ==
    /\ OnlyFsm
    /\ IF ~user
       THEN Reprompt("no_profile")
       ELSE IF DOMAIN ActiveCourts = {}
       THEN Reprompt("no_courts")
       ELSE /\ fsm' = [fsm EXCEPT ![u] =
                 [NoFsm EXCEPT !.state = "NewGame.court",
                               !.data.creator_mode = Some("self")]]
            /\ answer' = "ask_court"

newgame_court(u, text) ==
    /\ fsm[u].state = "NewGame.court"
    /\ OnlyFsm
    /\ IF IsWord(text, "Otmena")
       THEN fsm' = Cleared(u) /\ answer' = "cancelled"
       ELSE IF ~(text.t = "word" /\ text.w \in DOMAIN ActiveCourts)
       THEN Reprompt("choose_court")
       ELSE /\ fsm' = [fsm EXCEPT ![u].data.court_id = Some(ActiveCourts[text.w]),
                                  ![u].state = "NewGame.date_choice"]
            /\ answer' = "ask_date"

\* common end of newgame_date_choice and newgame_date_manual: the range
\* check, update_data(match_date), the time keyboard
DateChosen(u, match_date_obj, now) ==
    /\ UNCHANGED <<games, game_applications, tasks>>
    /\ outbox' = {}
    /\ IF match_date_obj < now.day
       THEN Reprompt("date_in_past") /\ UNCHANGED keyboards
       ELSE IF match_date_obj > now.day + MAX_MATCH_DAYS_AHEAD
       THEN Reprompt("date_too_far") /\ UNCHANGED keyboards
       ELSE LET time_kb == generate_time_keyboard(match_date_obj, now)
            IN  IF time_kb = {}
                THEN /\ fsm' = [fsm EXCEPT
                          ![u].data.match_date = Some(strftime(match_date_obj))]
                     /\ answer' = "no_slots_left"
                     /\ UNCHANGED keyboards
                ELSE /\ fsm' = [fsm EXCEPT
                          ![u].data.match_date = Some(strftime(match_date_obj)),
                          ![u].state = "NewGame.time"]
                     /\ keyboards' = [keyboards EXCEPT ![u].times = @ \cup time_kb]
                     /\ answer' = "ask_time"

newgame_date_choice(u, text, now) ==
    /\ fsm[u].state = "NewGame.date_choice"
    /\ IF IsWord(text, "Segodnya")
       THEN DateChosen(u, now.day, now)
       ELSE IF IsWord(text, "Zavtra")
       THEN DateChosen(u, now.day + 1, now)
       ELSE IF IsWord(text, "Vvesti datu")
       THEN /\ OnlyFsm
            /\ fsm' = [fsm EXCEPT ![u].state = "NewGame.date_manual"]
            /\ answer' = "ask_date_manual"
       ELSE OnlyFsm /\ Reprompt("choose_date")

newgame_date_manual(u, text, now) ==
    /\ fsm[u].state = "NewGame.date_manual"
    /\ IF text.t # "date"
       THEN OnlyFsm /\ Reprompt("bad_date_format")
       ELSE IF date(text.d, text.m, text.y) = 0
       THEN OnlyFsm /\ Reprompt("bad_date")
       ELSE DateChosen(u, date(text.d, text.m, text.y), now)

\* callback newgame_time:<label>, registered without a state filter; the
\* button pressed is one of a time keyboard in the user's chat
newgame_time_choice(u, time_str) ==
    /\ time_str \in keyboards[u].times
    /\ UNCHANGED <<games, game_applications, tasks>>
    /\ outbox' = {}
    /\ fsm' = [fsm EXCEPT ![u].data.match_time = Some(time_str),
                          ![u].state = "NewGame.end_time"]
    /\ keyboards' = [keyboards EXCEPT ![u].duration = TRUE]
    /\ answer' = "ask_duration"

newgame_time(u, text) ==
    /\ fsm[u].state = "NewGame.time"
    /\ OnlyFsm
    /\ IF parse_time(text) = None
       THEN Reprompt("bad_time")
       ELSE /\ fsm' = [fsm EXCEPT ![u].data.match_time = parse_time(text),
                                  ![u].state = "NewGame.end_time"]
            /\ answer' = "ask_end_time"

\* callback duration:<minutes>, registered without a state filter
newgame_duration_choice(u, duration_minutes) ==
    /\ keyboards[u].duration
    /\ OnlyFsm
    /\ IF fsm[u].data.match_time = None
       THEN Reprompt("choose_start_first")
       ELSE LET start_total == Minutes(fsm[u].data.match_time[1])
                end_total == start_total + duration_minutes
                end_time_str == <<(end_total \div 60) % 24, end_total % 60>>
            IN  /\ fsm' = [fsm EXCEPT
                     ![u].data.match_end_time = Some(end_time_str),
                     ![u].data.duration_minutes = Some(duration_minutes),
                     ![u].state = "NewGame.payment_type"]
                /\ answer' = "ask_payment"

newgame_end_time(u, text) ==
    /\ fsm[u].state = "NewGame.end_time"
    /\ OnlyFsm
    /\ LET end_time_str == parse_time(text)
           start_time_str == fsm[u].data.match_time
       IN  IF end_time_str = None
           THEN Reprompt("bad_time")
           ELSE IF start_time_str # None
                   /\ Minutes(end_time_str[1]) <= Minutes(start_time_str[1])
           THEN Reprompt("end_not_after_start")
           ELSE /\ fsm' = [fsm EXCEPT
                     ![u].data.match_end_time = end_time_str,
                     ![u].data.duration_minutes =
                         IF start_time_str = None THEN None
                         ELSE Some(Minutes(end_time_str[1]) - Minutes(start_time_str[1])),
                     ![u].state = "NewGame.payment_type"]
                /\ answer' = "ask_payment"

newgame_payment_type(u, text) ==
    /\ fsm[u].state = "NewGame.payment_type"
    /\ OnlyFsm
    /\ IF IsWord(text, "Otmena")
       THEN fsm' = Cleared(u) /\ answer' = "cancelled"
       ELSE LET payment_type ==
                    IF IsWord(text, "Delim porovnu") THEN Some("split")
                    ELSE IF IsWord(text, "Plachu ya") THEN Some("creator")
                    ELSE IF IsWord(text, "Obsudim v chate") THEN Some("discuss")
                    ELSE None
            IN  IF payment_type = None
                THEN Reprompt("choose_payment")
                ELSE /\ fsm' = [fsm EXCEPT ![u].data.payment_type = payment_type,
                                           ![u].state = "NewGame.game_type"]
                     /\ answer' = "ask_game_type"

newgame_game_type(u, text) ==
    /\ fsm[u].state = "NewGame.game_type"
    /\ OnlyFsm
    /\ IF ~(text.t = "word" /\ text.w \in {"Trenirovka", "Match na reiting"})
       THEN Reprompt("choose_game_type")
       ELSE /\ fsm' = [fsm EXCEPT ![u].data.game_type = Some(text.w),
                                  ![u].state = "NewGame.rating_limit_choice"]
            /\ answer' = "ask_rating_limit"

newgame_rating_limit_choice(u, text) ==
    /\ fsm[u].state = "NewGame.rating_limit_choice"
    /\ OnlyFsm
    /\ IF IsWord(text, "Bez ogranicheniy")
       THEN /\ fsm' = [fsm EXCEPT ![u].data.rating_min = None,
                                  ![u].data.rating_max = None,
                                  ![u].state = "NewGame.players_count"]
            /\ answer' = "ask_players_count"
       ELSE IF IsWord(text, "Da")
       THEN /\ fsm' = [fsm EXCEPT ![u].state = "NewGame.rating_min"]
            /\ answer' = "ask_rating_min"
       ELSE Reprompt("choose_rating_limit")

newgame_rating_min(u, text) ==
    /\ fsm[u].state = "NewGame.rating_min"
    /\ OnlyFsm
    /\ LET val == parse_rating_value(text)
       IN  IF val = None
           THEN Reprompt("bad_rating")
           ELSE /\ fsm' = [fsm EXCEPT ![u].data.rating_min = val,
                                      ![u].state = "NewGame.rating_max"]
                /\ answer' = "ask_rating_max"

newgame_rating_max(u, text) ==
    /\ fsm[u].state = "NewGame.rating_max"
    /\ OnlyFsm
    /\ LET val == parse_rating_value(text)
           rating_min_val == fsm[u].data.rating_min
       IN  IF val = None
           THEN Reprompt("bad_rating")
           ELSE IF rating_min_val # None /\ FloatLess(val[1], rating_min_val[1])
           THEN Reprompt("max_below_min")
           ELSE /\ fsm' = [fsm EXCEPT ![u].data.rating_max = val,
                                      ![u].state = "NewGame.players_count"]
                /\ answer' = "ask_players_count"

newgame_players_count(u, text) ==
    /\ fsm[u].state = "NewGame.players_count"
    /\ OnlyFsm
    /\ LET cnt == IF IsWord(text, "2 igroka") THEN Some(2)
                  ELSE IF IsWord(text, "4 igroka") THEN Some(4)
                  ELSE None
       IN  IF cnt = None
           THEN Reprompt("choose_players_count")
           ELSE /\ fsm' = [fsm EXCEPT ![u].data.players_count = cnt,
                                      ![u].state = "NewGame.court_booking"]
                /\ answer' = "ask_court_booking"

newgame_court_booking(u, text) ==
    /\ fsm[u].state = "NewGame.court_booking"
    /\ OnlyFsm
    /\ LET booked == IF IsWord(text, "Kort uzhe zabronirovan") THEN Some(TRUE)
                     ELSE IF IsWord(text, "Kort poka ne zabronirovan") THEN Some(FALSE)
                     ELSE None
       IN  IF booked = None
           THEN Reprompt("choose_court_booking")
           ELSE /\ fsm' = [fsm EXCEPT ![u].data.is_court_booked = booked,
                                      ![u].state = "NewGame.privacy"]
                /\ answer' = "ask_privacy"

newgame_privacy(u, text) ==
    /\ fsm[u].state = "NewGame.privacy"
    /\ OnlyFsm
    /\ LET visibility == IF IsWord(text, "Publichny match") THEN Some("public")
                         ELSE IF IsWord(text, "Privatny match") THEN Some("private")
                         ELSE None
       IN  IF visibility = None
           THEN Reprompt("choose_privacy")
           ELSE /\ fsm' = [fsm EXCEPT ![u].data.visibility = visibility,
                                      ![u].state = "NewGame.comment"]
                /\ answer' = "ask_comment"

\* the reply "Матч создан ... Игроки: {occupied} из {total}"
CreatedReply(to, occupancy) ==
    [to |-> to, kind |-> "created", occupied |-> occupancy[1], total |-> occupancy[2]]

\* the last step: the data is read, the state is cleared, then create_game
\* runs its INSERT; an IntegrityError ends the handler after the clear
newgame_comment(u, text) ==
    /\ fsm[u].state = "NewGame.comment"
    /\ UNCHANGED <<game_applications, tasks, keyboards>>
    /\ LET comment == IF IsWord(text, "Propustit") THEN None ELSE Some(text)
           data == fsm[u].data
       IN  /\ fsm' = Cleared(u)
           /\ IF NotNullViolated(data)
              THEN /\ answer' = "IntegrityError"
                   /\ outbox' = {}
                   /\ UNCHANGED games
              ELSE /\ Len(games) < MaxGames
                   /\ games' = Append(games, GameRow(u, data, comment))
                   /\ answer' = "created"
                   /\ outbox' = {CreatedReply(u,
                        get_game_occupancy(games', game_applications, Len(games')))}

\* a message of user u is handled by the handler of the state u is in
WizardMessage(u, text, now) ==
    \/ newgame_court(u, text)
    \/ newgame_date_choice(u, text, now)
    \/ newgame_date_manual(u, text, now)
    \/ newgame_time(u, text)
    \/ newgame_end_time(u, text)
    \/ newgame_payment_type(u, text)
    \/ newgame_game_type(u, text)
    \/ newgame_rating_limit_choice(u, text)
    \/ newgame_rating_min(u, text)
    \/ newgame_rating_max(u, text)
    \/ newgame_players_count(u, text)
    \/ newgame_court_booking(u, text)
    \/ newgame_privacy(u, text)
    \/ newgame_comment(u, text)

NextWizard ==
    \/ \E u \in Users : newgame_cmd(u, u \in Profiles)
    \/ \E u \in Users, text \in Texts : newgame_court(u, text)
    \/ \E u \in Users, text \in Texts, now \in Clock : newgame_date_choice(u, text, now)
    \/ \E u \in Users, text \in Texts, now \in Clock : newgame_date_manual(u, text, now)
    \/ \E u \in Users, i \in SlotIndexes : newgame_time_choice(u, Label(30 * i))
    \/ \E u \in Users, text \in Texts : newgame_time(u, text)
    \/ \E u \in Users, m \in Durations : newgame_duration_choice(u, m)
    \/ \E u \in Users, text \in Texts : newgame_end_time(u, text)
    \/ \E u \in Users, text \in Texts : newgame_payment_type(u, text)
    \/ \E u \in Users, text \in Texts : newgame_game_type(u, text)
    \/ \E u \in Users, text \in Texts : newgame_rating_limit_choice(u, text)
    \/ \E u \in Users, text \in Texts : newgame_rating_min(u, text)
    \/ \E u \in Users, text \in Texts : newgame_rating_max(u, text)
    \/ \E u \in Users, text \in Texts : newgame_players_count(u, text)
    \/ \E u \in Users, text \in Texts : newgame_court_booking(u, text)
    \/ \E u \in Users, text \in Texts : newgame_privacy(u, text)
    \/ \E u \in Users, text \in CommentTexts : newgame_comment(u, text)

SpecWizard == Init /\ [][NextWizard]_vars

\* ---------------------------------------- the wizard run at one clock reading
\* a dialogue whose messages are all handled while get_moscow_now() shows
\* the same minute
ScheduleNow == [day |-> MaxDay, time |-> <<9, 0>>]

\* the texts of the wizard and a time of day before ScheduleNow
ScheduleTexts == Texts \cup {TimeText(8, 30)}

NextSchedule ==
    \/ \E u \in Users : newgame_cmd(u, u \in Profiles)
    \/ \E u \in Users, text \in ScheduleTexts : newgame_court(u, text)
    \/ \E u \in Users, text \in ScheduleTexts : newgame_date_choice(u, text, ScheduleNow)
    \/ \E u \in Users, text \in ScheduleTexts : newgame_date_manual(u, text, ScheduleNow)
    \/ \E u \in Users, i \in SlotIndexes : newgame_time_choice(u, Label(30 * i))
    \/ \E u \in Users, text \in ScheduleTexts : newgame_time(u, text)
    \/ \E u \in Users, m \in Durations : newgame_duration_choice(u, m)
    \/ \E u \in Users, text \in ScheduleTexts : newgame_end_time(u, text)
    \/ \E u \in Users, text \in ScheduleTexts : newgame_payment_type(u, text)
    \/ \E u \in Users, text \in ScheduleTexts : newgame_game_type(u, text)
    \/ \E u \in Users, text \in ScheduleTexts : newgame_rating_limit_choice(u, text)
    \/ \E u \in Users, text \in ScheduleTexts : newgame_rating_min(u, text)
    \/ \E u \in Users, text \in ScheduleTexts : newgame_rating_max(u, text)
    \/ \E u \in Users, text \in ScheduleTexts : newgame_players_count(u, text)
    \/ \E u \in Users, text \in ScheduleTexts : newgame_court_booking(u, text)
    \/ \E u \in Users, text \in ScheduleTexts : newgame_privacy(u, text)
    \/ \E u \in Users, text \in CommentTexts : newgame_comment(u, text)

SpecSchedule == Init /\ [][NextSchedule]_vars

\* ------------------------------------------- the wizard with rating texts
\* one text of each reply keyboard that lets the dialogue go on, one other
\* text; texts float() accepts: below the range, two values in the range,
\* and "nan"; a text that is no time of day and the time of the button
\* pressed; the dates
RatingWords ==
    {"court1", "Segodnya", "Vvesti datu", "Delim porovnu", "Trenirovka",
     "Bez ogranicheniy", "Da",
     "2 igroka", "Kort uzhe zabronirovan", "Publichny match", "privet"}

RatingTexts ==
    {Word(w) : w \in RatingWords} \cup FloatTexts \cup {FloatText(300), FloatText(NaN)}
    \cup {TimeText(25, 0), TimeText(10, 0)} \cup DateTexts

\* the button of the time keyboard that is pressed
RatingSlots == {20}

NextRating ==
    \/ \E u \in Users : newgame_cmd(u, u \in Profiles)
    \/ \E u \in Users, text \in RatingTexts : newgame_court(u, text)
    \/ \E u \in Users, text \in RatingTexts : newgame_date_choice(u, text, ScheduleNow)
    \/ \E u \in Users, text \in RatingTexts : newgame_date_manual(u, text, ScheduleNow)
    \/ \E u \in Users, i \in RatingSlots : newgame_time_choice(u, Label(30 * i))
    \/ \E u \in Users, text \in RatingTexts : newgame_time(u, text)
    \/ \E u \in Users, m \in Durations : newgame_duration_choice(u, m)
    \/ \E u \in Users, text \in RatingTexts : newgame_end_time(u, text)
    \/ \E u \in Users, text \in RatingTexts : newgame_payment_type(u, text)
    \/ \E u \in Users, text \in RatingTexts : newgame_game_type(u, text)
    \/ \E u \in Users, text \in RatingTexts : newgame_rating_limit_choice(u, text)
    \/ \E u \in Users, text \in RatingTexts : newgame_rating_min(u, text)
    \/ \E u \in Users, text \in RatingTexts : newgame_rating_max(u, text)
    \/ \E u \in Users, text \in RatingTexts : newgame_players_count(u, text)
    \/ \E u \in Users, text \in RatingTexts : newgame_court_booking(u, text)
    \/ \E u \in Users, text \in RatingTexts : newgame_privacy(u, text)
    \/ \E u \in Users, text \in CommentTexts : newgame_comment(u, text)

SpecRating == Init /\ [][NextRating]_vars

\* ======================================================================
\* The public listing (/games)
\* ======================================================================
\* the table games holds at most MaxListed rows
MaxListed == 2

\* GAMES_PAGE_SIZE = 10
GAMES_PAGE_SIZE == 10

\* a < b on TEXT values of one format ("DD.MM.YYYY", "HH:MM"): the
\* strings are compared from their first field on
TextLess(a, b) ==
    \E i \in DOMAIN a :
        /\ a[i] < b[i]
        /\ \A j \in 1..(i - 1) : a[j] = b[j]

TextLeq(a, b) == a = b \/ TextLess(a, b)

\* rows of the table user_home_courts: the court ids of each user
user_home_courts == [u \in Users |-> IF u = 1 THEN {1} ELSE {}]

\* ids of the rows of the table courts
CourtIds == {ActiveCourts[c] : c \in DOMAIN ActiveCourts}

\* values of filter_time_from: none, a named part of the day, or 'HH:MM'
NoTimeFilter == [kind |-> "none"]
PartOfDay(name) == [kind |-> name]
TimeFrom(hhmm) == [kind |-> "from", time |-> hhmm]

\* the condition on g.match_time the filter adds to the query
TimeFilterMatches(filter_time_from, match_time) ==
    CASE filter_time_from.kind = "none" -> TRUE
      [] filter_time_from.kind = "morning" ->
            TextLeq(<<4, 0>>, match_time) /\ TextLeq(match_time, <<10, 0>>)
      [] filter_time_from.kind = "day" ->
            TextLeq(<<10, 30>>, match_time) /\ TextLeq(match_time, <<16, 0>>)
      [] filter_time_from.kind = "evening" ->
            TextLeq(<<16, 30>>, match_time) /\ TextLeq(match_time, <<23, 0>>)
      [] filter_time_from.kind = "night" ->
            TextLeq(<<23, 30>>, match_time) \/ TextLeq(match_time, <<3, 30>>)
      [] OTHER -> TextLeq(filter_time_from.time, match_time)

\* faulty variant: finished and cancelled games stay listed
Listable_any_status(row) ==
    /\ row.is_active = 1
    /\ row.visibility = "public"

\* WHERE g.is_active = 1 AND g.visibility = 'public' AND g.status = 'scheduled'
Listable(row) ==
    /\ row.is_active = 1
    /\ row.visibility = "public"
    /\ row.status = "scheduled"

\* ORDER BY g.match_date, g.match_time: both columns are TEXT; rows equal
\* in both come in the order of their ids
RowBefore(gs, i, j) ==
    \/ TextLess(gs[i].match_date, gs[j].match_date)
    \/ /\ gs[i].match_date = gs[j].match_date
       /\ \/ TextLess(gs[i].match_time, gs[j].match_time)
          \/ gs[i].match_time = gs[j].match_time /\ i < j

RECURSIVE OrderBy(_, _)
OrderBy(gs, S) ==
    IF S = {} THEN <<>>
    ELSE LET first == CHOOSE i \in S : \A j \in S \ {i} : RowBefore(gs, i, j)
         IN  <<first>> \o OrderBy(gs, S \ {first})

\* get_games_for_listing: the ids of the rows the query returns, in order
get_games_for_listing(gs, user_id, filter_date, filter_time_from, only_home, limit, offset) ==
    LET matching ==
            {g \in DOMAIN gs :
                /\ gs[g].court_id \in CourtIds
                /\ Listable(gs[g])
                /\ filter_date # None => gs[g].match_date = filter_date[1]
                /\ TimeFilterMatches(filter_time_from, gs[g].match_time)
                /\ only_home => gs[g].court_id \in user_home_courts[user_id]}
        rows == OrderBy(gs, matching)
        last == IF offset + limit < Len(rows) THEN offset + limit ELSE Len(rows)
    IN  SubSeq(rows, offset + 1, last)

\* the page sent to the user: the games of the query, in its order
Page(to, rows) == [to |-> to, kind |-> "page", rows |-> rows]

\* ------------------------------------------------- stored rows of games
\* the days (of the calendar of the clock) and start times of stored games
ListedDays == {1, 3}
ListedTimes == {<<9, 0>>, <<10, 0>>}

\* is_active and status of a stored row: as created, after score entry,
\* after UPDATE games SET status = 'cancelled', is_active = 0
StoredStates ==
    {[is_active |-> 1, status |-> "scheduled"],
     [is_active |-> 1, status |-> "finished"],
     [is_active |-> 0, status |-> "cancelled"]}

ListedRows ==
    {[GameRow(1, CollectedData(2, v, "self"), None) EXCEPT
         !.match_date = strftime(d), !.match_time = t,
         !.is_active = st.is_active, !.status = st.status]
       : v \in Visibilities, d \in ListedDays, t \in ListedTimes, st \in StoredStates}

ListingDateFilters == {None} \cup {Some(strftime(d)) : d \in ListedDays}
ListingTimeFilters == {NoTimeFilter, PartOfDay("morning"), PartOfDay("day"),
                       PartOfDay("evening"), PartOfDay("night"), TimeFrom(<<9, 30>>)}

InitListing ==
    /\ games \in UNION {[1..n -> ListedRows] : n \in 0..MaxListed}
    /\ game_applications = <<>>
    /\ tasks = EmptyBag
    /\ fsm = [u \in Users |-> NoFsm]
    /\ answer = "-"
    /\ outbox = {}
    /\ keyboards = [u \in Users |-> NoKeyboards]

\* _send_games_page: one call of get_games_for_listing with the filters and
\* the offset kept for the user, and the cards of the rows it returned
ListGames(u, filter_date, filter_time_from, only_home, offset) ==
    /\ answer' = "page"
    /\ outbox' = {Page(u, get_games_for_listing(games, u, filter_date,
                        filter_time_from, only_home, GAMES_PAGE_SIZE, offset))}
    /\ UNCHANGED <<games, game_applications, tasks, fsm, keyboards>>

NextListing ==
    \E u \in Users, filter_date \in ListingDateFilters,
       filter_time_from \in ListingTimeFilters, only_home \in BOOLEAN,
       offset \in {0, GAMES_PAGE_SIZE} :
        ListGames(u, filter_date, filter_time_from, only_home, offset)

SpecListing == InitListing /\ [][NextListing]_vars

\* ------------------------------------------------- the /games dialogue
\* how many stored games more than one page a browsing meets
MaxOverPage == 1

\* the users with a profile who browse the listing
BrowseProfiles == {2}

\* the texts a browsing user sends: the buttons of the four keyboards, a
\* text that is on none of them, and typed dates
BrowseWords ==
    {"Otmena", "Segodnya", "Zavtra", "Vse daty", "Vvesti datu",
     "Bez filtra po vremeni", "Utro", "Den", "Vecher", "Noch", "Nazad",
     "Vse korty", "Tolko domashnie korty",
     "Pokazat eshche 10 matchey", "Zakryt spisok matchey", "privet"}

BrowseTexts == {Word(w) : w \in BrowseWords} \cup DateTexts

\* data.get("filter_time_from"): the stored value, None when not stored
StoredTimeFilter(data) ==
    IF data.filter_time_from = None THEN NoTimeFilter ELSE data.filter_time_from[1]

\* _send_games_page with the FSM data the caller has written: one query at
\* the stored offset, a card with the button apply_game:<id> for each row,
\* then either the next offset and ViewGames.browsing, or state.clear()
send_games_page(u, data, initial) ==
    LET offset == IF data.offset = None THEN 0 ELSE data.offset[1]
        rows == get_games_for_listing(games, u, data.filter_date,
                    StoredTimeFilter(data), data.only_home = Some(TRUE),
                    GAMES_PAGE_SIZE, offset)
    IN  /\ UNCHANGED <<games, game_applications, tasks>>
        /\ IF rows = <<>>
           THEN /\ answer' = IF initial THEN "none_found" ELSE "no_more"
                /\ outbox' = {}
                /\ UNCHANGED keyboards
                /\ fsm' = Cleared(u)
           ELSE /\ outbox' = {Page(u, rows)}
                /\ keyboards' = [keyboards EXCEPT
                       ![u].cards = @ \cup {rows[i] : i \in DOMAIN rows}]
                /\ IF Len(rows) = GAMES_PAGE_SIZE
                   THEN /\ fsm' = [fsm EXCEPT
                              ![u].data = [data EXCEPT
                                  !.offset = Some(offset + GAMES_PAGE_SIZE)],
                              ![u].state = "ViewGames.browsing"]
                        /\ answer' = "show_more"
                   ELSE /\ fsm' = Cleared(u)
                        /\ answer' = "all_shown"

\* /games; user: whether get_user finds a profile. The cards counted for the
\* user are those of the browsing that starts here
games_cmd(u, user) ==
    /\ UNCHANGED <<games, game_applications, tasks>>
    /\ outbox' = {}
    /\ IF ~user
       THEN Reprompt("no_profile") /\ UNCHANGED keyboards
       ELSE /\ fsm' = [fsm EXCEPT ![u] = [NoFsm EXCEPT !.state = "ViewGames.date_choice"]]
            /\ keyboards' = [keyboards EXCEPT ![u].cards = {}]
            /\ answer' = "ask_date_filter"

games_date_choice(u, text, now) ==
    /\ fsm[u].state = "ViewGames.date_choice"
    /\ OnlyFsm
    /\ CASE text = Word("Otmena") ->
              fsm' = Cleared(u) /\ answer' = "view_cancelled"
         [] text = Word("Segodnya") ->
              /\ fsm' = [fsm EXCEPT ![u].data.filter_date = Some(strftime(now.day)),
                                    ![u].state = "ViewGames.time_choice"]
              /\ answer' = "ask_time_filter"
         [] text = Word("Zavtra") ->
              /\ fsm' = [fsm EXCEPT ![u].data.filter_date = Some(strftime(now.day + 1)),
                                    ![u].state = "ViewGames.time_choice"]
              /\ answer' = "ask_time_filter"
         [] text = Word("Vse daty") ->
              /\ fsm' = [fsm EXCEPT ![u].data.filter_date = None,
                                    ![u].state = "ViewGames.time_choice"]
              /\ answer' = "ask_time_filter"
         [] text = Word("Vvesti datu") ->
              /\ fsm' = [fsm EXCEPT ![u].state = "ViewGames.date_manual"]
              /\ answer' = "ask_date_manual"
         [] OTHER -> Reprompt("choose_on_keyboard")

games_date_manual(u, text) ==
    /\ fsm[u].state = "ViewGames.date_manual"
    /\ OnlyFsm
    /\ IF text.t # "date"
       THEN Reprompt("bad_date_format")
       ELSE IF date(text.d, text.m, text.y) = 0
       THEN Reprompt("bad_date")
       ELSE /\ fsm' = [fsm EXCEPT ![u].data.filter_date = Some(<<text.d, text.m, text.y>>),
                                  ![u].state = "ViewGames.time_choice"]
            /\ answer' = "ask_time_filter"

\* the value each button of games_time_choice_kb stores
TimeChoice(text) ==
    CASE text = Word("Bez filtra po vremeni") -> None
      [] text = Word("Utro") -> Some(PartOfDay("morning"))
      [] text = Word("Den") -> Some(PartOfDay("day"))
      [] text = Word("Vecher") -> Some(PartOfDay("evening"))
      [] text = Word("Noch") -> Some(PartOfDay("night"))

games_time_choice(u, text) ==
    /\ fsm[u].state = "ViewGames.time_choice"
    /\ OnlyFsm
    /\ CASE text = Word("Otmena") ->
              fsm' = Cleared(u) /\ answer' = "view_cancelled"
         [] text = Word("Nazad") ->
              /\ fsm' = [fsm EXCEPT ![u].state = "ViewGames.date_choice"]
              /\ answer' = "ask_date_filter"
         [] text \in {Word("Bez filtra po vremeni"), Word("Utro"), Word("Den"),
                      Word("Vecher"), Word("Noch")} ->
              /\ fsm' = [fsm EXCEPT ![u].data.filter_time_from = TimeChoice(text),
                                    ![u].state = "ViewGames.home_courts_filter"]
              /\ answer' = "ask_home_filter"
         [] OTHER -> Reprompt("choose_on_keyboard")

games_home_filter(u, text) ==
    /\ fsm[u].state = "ViewGames.home_courts_filter"
    /\ CASE text = Word("Otmena") ->
              OnlyFsm /\ fsm' = Cleared(u) /\ answer' = "view_cancelled"
         [] text \in {Word("Vse korty"), Word("Tolko domashnie korty")} ->
              LET only_home == /\ text = Word("Tolko domashnie korty")
                               /\ user_home_courts[u] # {}
              IN  send_games_page(u, [fsm[u].data EXCEPT
                                         !.only_home = Some(only_home),
                                         !.offset = Some(0)], TRUE)
         [] OTHER -> OnlyFsm /\ Reprompt("choose_on_keyboard")

games_browsing(u, text) ==
    /\ fsm[u].state = "ViewGames.browsing"
    /\ IF text = Word("Pokazat eshche 10 matchey")
       THEN send_games_page(u, fsm[u].data, FALSE)
       ELSE /\ OnlyFsm
            /\ fsm' = Cleared(u)
            /\ answer' = IF text = Word("Zakryt spisok matchey")
                         THEN "view_closed" ELSE "view_stopped"

\* the stored games a browsing meets: public scheduled games of user 1 on
\* the day of the clock, a later id starting half an hour earlier
BrowsedRows(n) ==
    [i \in 1..n |->
        [GameRow(1, CollectedData(2, "public", "self"), None) EXCEPT
            !.match_date = strftime(ScheduleNow.day),
            !.match_time = Label(30 * (48 - i))]]

\* the games whose score is entered while others browse: the first and the
\* last of the listing
ScoredGames == {1, Len(games)}

InitBrowse ==
    /\ games \in {BrowsedRows(n) :
                    n \in (GAMES_PAGE_SIZE - 1)..(GAMES_PAGE_SIZE + MaxOverPage)}
    /\ game_applications = <<>>
    /\ tasks = EmptyBag
    /\ fsm = [u \in Users |-> NoFsm]
    /\ answer = "-"
    /\ outbox = {}
    /\ keyboards = [u \in Users |-> NoKeyboards]

NextBrowse ==
    \/ \E u \in Users : games_cmd(u, u \in BrowseProfiles)
    \/ \E u \in Users, text \in BrowseTexts : games_date_choice(u, text, ScheduleNow)
    \/ \E u \in Users, text \in BrowseTexts : games_date_manual(u, text)
    \/ \E u \in Users, text \in BrowseTexts : games_time_choice(u, text)
    \/ \E u \in Users, text \in BrowseTexts : games_home_filter(u, text)
    \/ \E u \in Users, text \in BrowseTexts : games_browsing(u, text)
    \/ \E u \in Users, g \in ScoredGames : cancel_game_callback(u, g)
    \/ \E u \in Users, g \in ScoredGames : set_score_callback(u, g)
    \/ \E u \in Users, s \in Scores : mygames_waiting_score_handler(u, s)

SpecBrowse == InitBrowse /\ [][NextBrowse]_vars

\* ------------------------------------------------ two dialogues at a time
\* the users with a profile when two users create games
PairProfiles == {1, 2}

\* what the two users send: user 1 answers with the buttons of the
\* keyboards and sets a rating range; user 2 types the date and the times,
\* sets no rating range, asks for 4 players and a private game, and may
\* send the cancel text
PairWords ==
    [u \in Users |->
        CASE u = 1 -> {"court1", "Segodnya", "Delim porovnu", "Trenirovka", "Da",
                       "2 igroka", "Kort uzhe zabronirovan", "Publichny match"}
          [] u = 2 -> {"Otmena", "court1", "Vvesti datu", "Delim porovnu", "Trenirovka",
                       "Bez ogranicheniy", "4 igroka", "Kort uzhe zabronirovan",
                       "Privatny match"}
          [] OTHER -> {}]

PairTexts ==
    [u \in Users |->
        {Word(w) : w \in PairWords[u]}
        \cup (CASE u = 1 -> {FloatText(100)}
                [] u = 2 -> {DateText(strftime(MaxDay)[1], strftime(MaxDay)[2],
                                      strftime(MaxDay)[3]),
                             TimeText(10, 0), TimeText(23, 30)}
                [] OTHER -> {})]

\* the users who press the buttons of the inline keyboards
PairButtonUsers == {1}

NextPair ==
    \/ \E u \in Users : newgame_cmd(u, u \in PairProfiles)
    \/ \E u \in Users : \E text \in PairTexts[u] : newgame_court(u, text)
    \/ \E u \in Users : \E text \in PairTexts[u] : newgame_date_choice(u, text, ScheduleNow)
    \/ \E u \in Users : \E text \in PairTexts[u] : newgame_date_manual(u, text, ScheduleNow)
    \/ \E u \in PairButtonUsers, i \in RatingSlots : newgame_time_choice(u, Label(30 * i))
    \/ \E u \in Users : \E text \in PairTexts[u] : newgame_time(u, text)
    \/ \E u \in PairButtonUsers, m \in Durations : newgame_duration_choice(u, m)
    \/ \E u \in Users : \E text \in PairTexts[u] : newgame_end_time(u, text)
    \/ \E u \in Users : \E text \in PairTexts[u] : newgame_payment_type(u, text)
    \/ \E u \in Users : \E text \in PairTexts[u] : newgame_game_type(u, text)
    \/ \E u \in Users : \E text \in PairTexts[u] : newgame_rating_limit_choice(u, text)
    \/ \E u \in Users : \E text \in PairTexts[u] : newgame_rating_min(u, text)
    \/ \E u \in Users : \E text \in PairTexts[u] : newgame_rating_max(u, text)
    \/ \E u \in Users : \E text \in PairTexts[u] : newgame_players_count(u, text)
    \/ \E u \in Users : \E text \in PairTexts[u] : newgame_court_booking(u, text)
    \/ \E u \in Users : \E text \in PairTexts[u] : newgame_privacy(u, text)
    \/ \E u \in Users, text \in CommentTexts : newgame_comment(u, text)

SpecPair == Init /\ [][NextPair]_vars

TypeOK ==
    /\ Len(games) <= MaxGames
    /\ Len(game_applications) <= MaxApps
    /\ BagCardinality(tasks) <= MaxTasks
    /\ \A i \in DOMAIN game_applications :
          game_applications[i].status \in {"pending", "accepted", "rejected", "cancelled"}
    /\ \A i \in DOMAIN games : games[i].status \in {"scheduled", "cancelled", "finished"}

\* ======================================================================
\* Properties
\* ======================================================================
Occupied(g) == get_game_occupancy(games, game_applications, g)[1]
Capacity(g) == get_game_occupancy(games, game_applications, g)[2]
CreatorOf(a) == games[game_applications[a].game_id].creator_id
DecisionsCommitted == Running("app_decision_callback", "notify")

\* the applications of game g come from pairwise different applicants
DistinctApplicants(g) ==
    \A i \in DOMAIN game_applications, j \in DOMAIN game_applications :
        (/\ game_applications[i].game_id = g
         /\ game_applications[j].game_id = g
         /\ game_applications[i].applicant_id = game_applications[j].applicant_id)
        => i = j

\* C1: in every reachable state every game has occupied(g) <= capacity(g)
\* (looked at where every applicant has a single application on the game, so
\* that a breach is not one of duplicated rows)
C1_OccupiedWithinCapacity ==
    \A g \in DOMAIN games : DistinctApplicants(g) => Occupied(g) <= Capacity(g)

\* C2: an accept decided on a pending application of a game that is already
\* full (occupied >= capacity) does not take effect: whatever step is taken,
\* the application is not accepted by it (looked at where every applicant
\* has a single application on the game)
C2_AcceptWhenFullFails ==
    [][\A a \in DOMAIN game_applications :
          (/\ game_applications[a].status = "pending"
           /\ DistinctApplicants(game_applications[a].game_id)
           /\ Occupied(game_applications[a].game_id)
                >= Capacity(game_applications[a].game_id))
          => game_applications'[a].status # "accepted"]_vars

\* C3: of the accept calls in flight together on distinct applications of a
\* game that had exactly one free slot, only one ends with its application
\* accepted: two such calls (for different applicants) never both stand
\* committed as accepted
C3_OneFreeSlotOneAccept ==
    \A t1 \in DecisionsCommitted, t2 \in DecisionsCommitted :
        (/\ t1.arg # t2.arg
         /\ t1.applicant_id # t2.applicant_id
         /\ t1.game_id = t2.game_id
         /\ Occupied(t1.game_id) - 2 = Capacity(t1.game_id) - 1)
        => ~(/\ game_applications[t1.arg].status = "accepted"
             /\ game_applications[t2.arg].status = "accepted")

\* C4: a decide call by the creator on an application that is already
\* accepted or rejected answers "already processed", changes no application,
\* sends nothing and leaves no work behind
C4_RedecideIsRefused ==
    [][\A u \in Users, a \in DOMAIN game_applications, action \in Actions :
          (/\ game_applications[a].status \in {"accepted", "rejected"}
           /\ u = CreatorOf(a)
           /\ app_decision_select(u, a, action))
          => (/\ answer' = "already_processed"
              /\ game_applications' = game_applications
              /\ games' = games
              /\ outbox' = {}
              /\ tasks' = tasks)]_vars

\* C4 witness: a re-decide was just refused while no other call is running
C4_Witness ==
    /\ answer = "already_processed"
    /\ tasks = EmptyBag
    /\ \E a \in DOMAIN game_applications : game_applications[a].status = "accepted"
    /\ \E a \in DOMAIN game_applications : game_applications[a].status = "rejected"

\* C5: an application that is accepted stays accepted in every step
C5_AcceptedIsTerminal ==
    [][\A a \in DOMAIN game_applications :
          game_applications[a].status = "accepted"
          => game_applications'[a].status = "accepted"]_vars

\* C6: a decide call by a user who is not the creator of the application's
\* game answers "not the organizer", changes no row, sends nothing and
\* leaves no work behind
C6_NotDeciderIsRefused ==
    [][\A u \in Users, a \in DOMAIN game_applications, action \in Actions :
          (/\ u # CreatorOf(a)
           /\ app_decision_select(u, a, action))
          => (/\ answer' = "not_organizer"
              /\ game_applications' = game_applications
              /\ games' = games
              /\ fsm' = fsm
              /\ outbox' = {}
              /\ tasks' = tasks)]_vars

\* C6 witness: a stranger's decide on a pending application was just refused
C6_Witness ==
    /\ answer = "not_organizer"
    /\ \E a \in DOMAIN game_applications : game_applications[a].status = "pending"

\* C7: a reject by the creator on a pending application is never refused,
\* whatever the occupancy, and when it is written while the application is
\* pending the status becomes rejected, the call answers "saved", and
\* occupied(g) and every other row stay as they were
C7_RejectAlwaysSucceeds ==
    [][/\ \A u \in Users, a \in DOMAIN game_applications :
             (/\ game_applications[a].status = "pending"
              /\ u = CreatorOf(a)
              /\ app_decision_select(u, a, "reject"))
             => (/\ answer' = "-"
                 /\ \E task \in BagToSet(tasks') :
                       /\ task.arg = a /\ task.act = "reject" /\ task.pc = "update"
                       /\ CopiesIn(task, tasks') = CopiesIn(task, tasks) + 1)
       /\ \A task \in BagToSet(tasks), n_sent \in 0..2 :
             (/\ task.act = "reject"
              /\ game_applications[task.arg].status = "pending"
              /\ app_decision_update(task, n_sent))
             => (/\ game_applications'[task.arg].status = "rejected"
                 /\ answer' = "saved"
                 /\ get_game_occupancy(games', game_applications', task.game_id)
                      = get_game_occupancy(games, game_applications, task.game_id)
                 /\ \A i \in DOMAIN game_applications :
                       i # task.arg => game_applications'[i] = game_applications[i])
      ]_vars

\* C7 witness: a reject was just saved on a game that is full
C7_Witness ==
    /\ answer = "saved"
    /\ tasks = EmptyBag
    /\ \E a \in DOMAIN game_applications :
          /\ game_applications[a].status = "rejected"
          /\ Occupied(game_applications[a].game_id)
               >= Capacity(game_applications[a].game_id)
          /\ Msg(game_applications[a].applicant_id, "rejected") \in outbox

\* C8: a submit by another user on a public game whose status is not
\* scheduled (cancelled or finished) answers "unavailable" and goes no further
C8_SubmitOnlyWhenScheduled ==
    [][\A u \in Users, g \in DOMAIN games :
          (/\ games[g].status # "scheduled"
           /\ games[g].visibility = "public"
           /\ u # games[g].creator_id
           /\ apply_game_select_game(u, g))
          => (answer' = "unavailable" /\ tasks' = tasks)]_vars

\* C9: at most one row of game_applications per (game, applicant) pair
C9_OneRowPerPair ==
    \A i \in DOMAIN game_applications, j \in DOMAIN game_applications :
        (/\ game_applications[i].game_id = game_applications[j].game_id
         /\ game_applications[i].applicant_id = game_applications[j].applicant_id)
        => i = j

\* the rows of the pair (g, u)
RowsOfPair(g, u) ==
    {i \in DOMAIN game_applications :
        game_applications[i].game_id = g /\ game_applications[i].applicant_id = u}

C11_NoOwnGameApplication ==
    [][/\ \A u \in Users, g \in DOMAIN games :
             (/\ games[g].creator_id = u
              /\ games[g].is_active = 1
              /\ games[g].visibility = "public"
              /\ apply_game_select_game(u, g))
             => (/\ answer' = "own_game"
                 /\ tasks' = tasks
                 /\ game_applications' = game_applications)
       /\ \A i \in DOMAIN game_applications' :
             game_applications'[i].applicant_id
               # games'[game_applications'[i].game_id].creator_id
      ]_vars

\* C11 witness: the creator's submit was just refused on a game that has
\* applications of other users
C11_Witness ==
    /\ answer = "own_game"
    /\ game_applications # <<>>

\* C12: a submit by a user who is not the creator and has no application on
\* a scheduled game that is open for applications passes both checks and
\* inserts a pending row with the answer "sent", whatever the occupancy of
\* the game and however many applications are pending already
C12_SubmitIgnoresCapacity ==
    [][/\ \A u \in Users, g \in DOMAIN games :
             (/\ games[g].status = "scheduled"
              /\ games[g].is_active = 1
              /\ games[g].visibility = "public"
              /\ u # games[g].creator_id
              /\ apply_game_select_game(u, g))
             => (/\ answer' = "-"
                 /\ \E task \in BagToSet(tasks') :
                       /\ task.h = "apply_game_callback" /\ task.pc = "select_exists"
                       /\ task.u = u /\ task.game_id = g
                       /\ CopiesIn(task, tasks') = CopiesIn(task, tasks) + 1)
       /\ \A task \in BagToSet(tasks) :
             (/\ RowsOfPair(task.game_id, task.u) = {}
              /\ apply_game_select_exists(task))
             => (answer' = "-" /\ tasks' = Moved(task, "insert"))
       /\ \A task \in BagToSet(tasks), card_sent \in BOOLEAN :
             apply_game_insert(task, card_sent)
             => (/\ answer' = "sent"
                 /\ Len(game_applications') = Len(game_applications) + 1
                 /\ game_applications'[Len(game_applications')]
                      = [game_id |-> task.game_id, applicant_id |-> task.u,
                         status |-> "pending"])
      ]_vars

\* C12 witness: an application was just submitted and stands pending on a
\* scheduled game that is full
C12_Witness ==
    /\ answer = "sent"
    /\ tasks = EmptyBag
    /\ game_applications # <<>>
    /\ LET app_row == game_applications[Len(game_applications)]
       IN  /\ app_row.status = "pending"
           /\ games[app_row.game_id].status = "scheduled"
           /\ Occupied(app_row.game_id) = Capacity(app_row.game_id)

\* C13: a cancel by the creator on a scheduled game sets the game's status
\* to cancelled and leaves none of its applications pending
C13_CancelByCreatorSucceeds ==
    [][\A u \in Users, g \in DOMAIN games :
          (/\ games[g].creator_id = u
           /\ games[g].status = "scheduled"
           /\ cancel_game_callback(u, g))
          => (/\ games'[g].status = "cancelled"
              /\ \A i \in DOMAIN game_applications' :
                    game_applications'[i].game_id = g
                    => game_applications'[i].status \notin {"pending"})]_vars

\* C14: a cancel by a user who is not the creator, or on a game that is
\* cancelled already, is answered with the matching refusal ("not your
\* game" / "already cancelled") and changes neither the game nor its
\* applications
C14_CancelRefused ==
    [][\A u \in Users, g \in DOMAIN games :
          (/\ (games[g].creator_id # u \/ games[g].status = "cancelled")
           /\ cancel_game_callback(u, g))
          => (/\ answer' \in {"not_your_game", "already_cancelled"}
              /\ games' = games
              /\ game_applications' = game_applications)]_vars

RECURSIVE AcceptedUpTo(_, _, _)
AcceptedUpTo(apps, g, n) ==
    IF n = 0 THEN 0
    ELSE AcceptedUpTo(apps, g, n - 1)
         + (IF apps[n].game_id = g /\ apps[n].status = "accepted" THEN 1 ELSE 0)

\* the slot of the creator and the accepted rows, counted row by row
CountedOccupancy(gs, apps, g) ==
    <<(IF gs[g].creator_mode = "self" THEN 1 ELSE 0) + AcceptedUpTo(apps, g, Len(apps)),
      gs[g].players_count>>

\* C17: for every game, get_game_occupancy equals (slot of the creator +
\* number of accepted rows of the game, players_count), computed from the
\* rows as they are now, so a game without accepted applications reports
\* (1, capacity) when its creator plays and (0, capacity) otherwise; an accept
\* written on a pending application raises occupied by exactly 1 and leaves
\* total alone; and the organizer's reply after an accept carries that pair
C17_Occupancy ==
    /\ [](\A g \in DOMAIN games :
           /\ get_game_occupancy(games, game_applications, g)
                = CountedOccupancy(games, game_applications, g)
           /\ AppsOf(game_applications, g, "accepted") = {}
              => get_game_occupancy(games, game_applications, g)
                   = <<(IF games[g].creator_mode = "self" THEN 1 ELSE 0),
                       games[g].players_count>>)
    /\ [][/\ \A task \in BagToSet(tasks), n_sent \in 0..2 :
                (/\ task.act = "accept"
                 /\ game_applications[task.arg].status = "pending"
                 /\ app_decision_update(task, n_sent))
                => get_game_occupancy(games', game_applications', task.game_id)
                     = <<CountedOccupancy(games, game_applications, task.game_id)[1] + 1,
                         games[task.game_id].players_count>>
          /\ \A m \in outbox' :
                m.kind = "accept_reply"
                => \E g \in DOMAIN games :
                      <<m.occupied, m.total>>
                        = CountedOccupancy(games, game_applications, g)
         ]_vars

\* C17 witness: the creator does not play, one application was accepted, and
\* the organizer's reply just reported 1 of capacity
C17_Witness ==
    /\ games # <<>>
    /\ games[1].creator_mode = "others"
    /\ Cardinality(AppsOf(game_applications, 1, "accepted")) = 1
    /\ \E m \in outbox :
          m.kind = "accept_reply" /\ m.occupied = 1 /\ m.total = games[1].players_count

\* C18: when a send fails after a submit or a decide, the row written by the
\* call stays as committed (the submit's pending row, the decided status),
\* no other row changes, and the call still ends with its success answer
C18_SendFailureKeepsCommit ==
    [][/\ \A task \in BagToSet(tasks) :
             apply_game_insert(task, FALSE)
             => (/\ game_applications' = Append(game_applications,
                      [game_id |-> task.game_id, applicant_id |-> task.u,
                       status |-> "pending"])
                 /\ answer' = "sent"
                 /\ tasks' = Finished(task))
       /\ \A task \in BagToSet(tasks), n_sent \in 0..1 :
             (task.act = "reject" /\ app_decision_update(task, n_sent))
             => (/\ game_applications'
                      = [game_applications EXCEPT ![task.arg].status = "rejected"]
                 /\ answer' = "saved"
                 /\ tasks' = Finished(task))
       /\ \A task \in Running("app_decision_callback", "notify") :
             \* the step that ends the notifications of an accept, whichever
             \* of them went out
             tasks' = Finished(task)
             => (/\ game_applications' = game_applications
                 /\ games' = games
                 /\ answer' = "saved")
      ]_vars

\* C18 witness: an accept was just answered "saved" although none of its
\* notifications went out, and the application is accepted
C18_Witness ==
    /\ answer = "saved"
    /\ outbox = {}
    /\ tasks = EmptyBag
    /\ game_applications # <<>>
    /\ \A i \in DOMAIN game_applications : game_applications[i].status = "accepted"

\* C19: at every step of the wizard the message "Отмена" clears the state
\* and the collected data of its sender and persists no game
C19_CancelAtEveryStep ==
    [][\A u \in Users, now \in Clock :
          (/\ fsm[u].state \in WizardStates
           /\ WizardMessage(u, Word("Otmena"), now))
          => (/\ fsm'[u] = NoFsm
              /\ games' = games)]_vars

\* C20: a message handled at the last step (comment) persists exactly one
\* game, scheduled and created by the sender, and ends the sender's
\* dialogue; and a game is persisted by no other step
C20_CompletionCreatesOneGame ==
    [][/\ \A u \in Users, text \in CommentTexts :
             newgame_comment(u, text)
             => (/\ Len(games') = Len(games) + 1
                 /\ games'[Len(games')].status = "scheduled"
                 /\ games'[Len(games')].creator_id = u
                 /\ fsm'[u] = NoFsm)
       /\ games' # games
          => \E u \in Users : fsm[u].state = "NewGame.comment" /\ fsm'[u] = NoFsm
      ]_vars

\* C21: every game the wizard persists starts (date and start time) no
\* earlier than the moment of its creation, and its date is at most
\* MAX_MATCH_DAYS_AHEAD days after the day of its creation.  Violated: a
\* start time typed at the step NewGame.time is not compared with the clock.
C21_StartNotInPast ==
    [][\A u \in Users, text \in CommentTexts :
          (newgame_comment(u, text) /\ games' # games)
          => LET game == games'[Len(games')]
                 day == date(game.match_date[1], game.match_date[2], game.match_date[3])
             IN  /\ \/ day > ScheduleNow.day
                    \/ /\ day = ScheduleNow.day
                       /\ Minutes(game.match_time) >= Minutes(ScheduleNow.time)
                 /\ day <= ScheduleNow.day + MAX_MATCH_DAYS_AHEAD]_vars

\* C22: every persisted game has players_count >= 2 and either no rating
\* range (rating_min and rating_max both NULL) or both bounds with
\* 1.0 <= rating_min <= rating_max <= 7.0.  Violated: the text "nan" passes
\* parse_rating_value and is stored as NULL next to the other bound.
C22_CapacityAndRatingRange ==
    \A g \in DOMAIN games :
        /\ games[g].players_count >= 2
        /\ \/ games[g].rating_min = None /\ games[g].rating_max = None
           \/ /\ games[g].rating_min # None
              /\ games[g].rating_max # None
              /\ 100 <= games[g].rating_min[1]
              /\ games[g].rating_min[1] <= games[g].rating_max[1]
              /\ games[g].rating_max[1] <= 700

\* C23: the wizard asks whether the creator plays as one of its steps: the
\* dialogue /newgame starts passes through NewGame.creator_mode, the step
\* before the court, so a user enters the court step from that step only.
\* Violated: newgame_cmd stores creator_mode = "self" and goes to the court
\* step itself; no handler sets the state NewGame.creator_mode.
C23_CreatorModeStepIsAsked ==
    [][\A u \in Users :
          (fsm'[u].state = "NewGame.court" /\ fsm[u].state # "NewGame.court")
          => fsm[u].state = "NewGame.creator_mode"]_vars

\* the day of the calendar and the minute of the day a stored game starts at
StartOf(row) ==
    <<date(row.match_date[1], row.match_date[2], row.match_date[3]),
      Minutes(row.match_time)>>

\* C24: every page of the listing shows its games in chronological order,
\* by date and then by start time.  Violated: the dates are compared as the
\* texts "DD.MM.YYYY", so 01.01.2025 comes before 30.12.2024.
C24_ListingIsChronological ==
    \A msg \in outbox :
        msg.kind = "page"
        => \A i, j \in DOMAIN msg.rows :
              i < j => TextLeq(StartOf(games[msg.rows[i]]), StartOf(games[msg.rows[j]]))

\* C25: every game on a page of the listing is public, active and
\* scheduled: no private, cancelled or finished game is listed.
C25_ListingOnlyPublicActiveScheduled ==
    \A msg \in outbox :
        msg.kind = "page"
        => \A i \in DOMAIN msg.rows :
              /\ games[msg.rows[i]].visibility = "public"
              /\ games[msg.rows[i]].is_active = 1
              /\ games[msg.rows[i]].status = "scheduled"

\* a page without filters that shows one game and leaves out a stored game
\* that is private, finished or cancelled
C25_Witness ==
    \E msg \in outbox :
        /\ msg.kind = "page"
        /\ Len(msg.rows) = 1
        /\ Len(games) = 2
        /\ \E g \in DOMAIN games :
              /\ g # msg.rows[1]
              /\ games[g].match_date = games[msg.rows[1]].match_date
              /\ \/ games[g].visibility = "private"
                 \/ games[g].status \in {"finished", "cancelled"}

\* C26: two decide calls on one pending application behave as if run one
\* after the other: a call writes its decision and notifies the applicant
\* only if the application is still pending when it writes; the call that
\* comes second is refused.  Violated: both calls read "pending" before
\* either writes, then both write and both notify.
C26_ConcurrentDecidesSerialized ==
    [][\A task \in BagToSet(tasks), n_sent \in 0..2 :
          app_decision_update(task, n_sent)
          => game_applications[task.arg].status = "pending"]_vars

\* the place of each step in the order of the dialogue
StepNumber ==
    [s \in WizardStates |->
        CASE s = "NewGame.court" -> 1
          [] s = "NewGame.date_choice" -> 2
          [] s = "NewGame.date_manual" -> 3
          [] s = "NewGame.time" -> 4
          [] s = "NewGame.end_time" -> 5
          [] s = "NewGame.payment_type" -> 6
          [] s = "NewGame.game_type" -> 7
          [] s = "NewGame.rating_limit_choice" -> 8
          [] s = "NewGame.rating_min" -> 9
          [] s = "NewGame.rating_max" -> 10
          [] s = "NewGame.players_count" -> 11
          [] s = "NewGame.court_booking" -> 12
          [] s = "NewGame.privacy" -> 13
          [] s = "NewGame.comment" -> 14]

\* C27: the wizard is linear: an input moves a user to another step of the
\* wizard only forward from a step of the wizard, or, with /newgame, to the
\* first step of a new dialogue; no input enters the wizard at a later step
\* or goes back to an earlier one.  Violated: the buttons of the time and
\* duration keyboards are handled in every state.
C27_WizardIsLinear ==
    [][\A u \in Users :
          (fsm'[u].state \in WizardStates /\ fsm'[u].state # fsm[u].state)
          => \/ newgame_cmd(u, u \in Profiles)
             \/ /\ fsm[u].state \in WizardStates
                /\ StepNumber[fsm'[u].state] > StepNumber[fsm[u].state]]_vars

\* the inputs a step of the wizard refuses: text sent by user u in the
\* given state of the dialogue
FailsValidation(u, text, now) ==
    LET state == fsm[u].state
        data == fsm[u].data
        NotAmong(words) == ~(text.t = "word" /\ text.w \in words)
    IN  CASE state = "NewGame.court" -> NotAmong(DOMAIN ActiveCourts \cup {"Otmena"})
          [] state = "NewGame.date_choice" ->
                NotAmong({"Segodnya", "Zavtra", "Vvesti datu"})
          [] state = "NewGame.date_manual" ->
                \/ text.t # "date"
                \/ date(text.d, text.m, text.y) = 0
                \/ date(text.d, text.m, text.y) < now.day
                \/ date(text.d, text.m, text.y) > now.day + MAX_MATCH_DAYS_AHEAD
          [] state = "NewGame.time" -> parse_time(text) = None
          [] state = "NewGame.end_time" ->
                \/ parse_time(text) = None
                \/ /\ data.match_time # None
                   /\ Minutes(parse_time(text)[1]) <= Minutes(data.match_time[1])
          [] state = "NewGame.payment_type" ->
                NotAmong({"Delim porovnu", "Plachu ya", "Obsudim v chate", "Otmena"})
          [] state = "NewGame.game_type" -> NotAmong({"Trenirovka", "Match na reiting"})
          [] state = "NewGame.rating_limit_choice" -> NotAmong({"Bez ogranicheniy", "Da"})
          [] state = "NewGame.rating_min" -> parse_rating_value(text) = None
          [] state = "NewGame.rating_max" ->
                \/ parse_rating_value(text) = None
                \/ /\ data.rating_min # None
                   /\ FloatLess(parse_rating_value(text)[1], data.rating_min[1])
          [] state = "NewGame.players_count" -> NotAmong({"2 igroka", "4 igroka"})
          [] state = "NewGame.court_booking" ->
                NotAmong({"Kort uzhe zabronirovan", "Kort poka ne zabronirovan"})
          [] state = "NewGame.privacy" -> NotAmong({"Publichny match", "Privatny match"})
          [] OTHER -> FALSE

\* C28: at every step of the wizard a message the step refuses leaves the
\* user at the same step with the data collected so far, leaves every
\* other user's dialogue alone, and persists no game
\* (stated from the effect: a step that changes a dialogue or the games is
\* not the handling of a refused message)
C28_InvalidInputReprompts ==
    [][(fsm' # fsm \/ games' # games)
       => \A u \in Users, text \in RatingTexts :
             ~(/\ fsm[u].state \in WizardStates
               /\ FailsValidation(u, text, ScheduleNow)
               /\ WizardMessage(u, text, ScheduleNow))]_vars

\* a maximum rating below the stored minimum has just been refused
C28_Witness ==
    /\ answer = "max_below_min"
    /\ \E u \in Users :
          /\ fsm[u].state = "NewGame.rating_max"
          /\ fsm[u].data.rating_min = Some(300)
    /\ games = <<>>

\* the step is the handling of an update sent by user u: /newgame, a
\* message in a state of the wizard, or a press on an inline button
WizardStepOf(u) ==
    \/ newgame_cmd(u, u \in PairProfiles)
    \/ \E text \in PairTexts[u] \cup CommentTexts : WizardMessage(u, text, ScheduleNow)
    \/ \E i \in RatingSlots : newgame_time_choice(u, Label(30 * i))
    \/ \E m \in Durations : newgame_duration_choice(u, m)

\* C29: the state of the wizard is kept per user: a step, a cancel or a
\* completion by one user leaves the step and the collected data of every
\* other user unchanged, and the game a user creates holds that user's id
\* and the values collected in that user's dialogue (the first part stated
\* from the effect: a step that changes the context of user v is not the
\* handling of an update of another user)
C29_WizardStatePerUser ==
    [][/\ \A v \in Users :
             fsm'[v] # fsm[v] => \A u \in Users \ {v} : ~WizardStepOf(u)
       /\ \A u \in Users, text \in CommentTexts :
             (games' # games /\ newgame_comment(u, text))
             => LET game == games'[Len(games')]
                    data == fsm[u].data
                IN  /\ game.creator_id = u
                    /\ game.court_id = data.court_id[1]
                    /\ game.match_date = data.match_date[1]
                    /\ game.match_time = data.match_time[1]
                    /\ game.match_end_time = data.match_end_time
                    /\ game.payment_type = data.payment_type
                    /\ game.game_type = data.game_type[1]
                    /\ game.rating_min = data.rating_min
                    /\ game.rating_max = data.rating_max
                    /\ game.players_count = data.players_count[1]
                    /\ game.visibility = data.visibility[1]
      ]_vars

\* user 1 has just created a game while user 2 is at a later step of a
\* dialogue with other values collected
C29_Witness ==
    /\ answer = "created"
    /\ Len(games) = 1
    /\ games[1].creator_id = 1
    /\ games[1].players_count = 2
    /\ games[1].rating_min = Some(100)
    /\ fsm[1] = NoFsm
    /\ fsm[2].state = "NewGame.privacy"
    /\ fsm[2].data.players_count = Some(4)
    /\ fsm[2].data.rating_min = None

\* the users an accept of the application of task is to notify, by the rows
\* stored when the notifications are sent: the creator, the applicant just
\* accepted, and every applicant whose application on the game is accepted
AcceptRecipients(task) ==
    {task.creator_id, task.applicant_id}
    \cup {game_applications[i].applicant_id :
            i \in {k \in DOMAIN game_applications :
                     /\ game_applications[k].game_id = task.game_id
                     /\ game_applications[k].status = "accepted"}}

\* C30: after an accept was committed, the notifications go to the creator,
\* to the applicant just accepted and to the other applicants accepted on
\* the game by then, and to nobody else; nobody gets two; when no send
\* fails, all of them are notified
C30_AcceptNotifiesParticipants ==
    [][\A task \in Running("app_decision_callback", "notify") :
          /\ tasks' = Finished(task)
             => /\ {msg.to : msg \in outbox'} \subseteq AcceptRecipients(task)
                /\ \A msg1, msg2 \in outbox' : msg1.to = msg2.to => msg1 = msg2
          /\ app_decision_notify(task, TRUE, TRUE,
                 AcceptRecipients(task) \ {task.creator_id, task.applicant_id})
             => {msg.to : msg \in outbox'} = AcceptRecipients(task)]_vars

\* an accept has just notified the creator, the applicant just accepted and
\* a participant accepted before
C30_Witness ==
    /\ answer = "saved"
    /\ Cardinality(outbox) = 3
    /\ \E msg \in outbox : msg.kind = "accept_reply"
    /\ \E msg \in outbox : msg.kind = "accepted"
    /\ \E msg \in outbox : msg.kind = "joined"

\* C31: a reject that was committed notifies the applicant only: no message
\* goes to the creator or to an accepted participant of the game.
\* Violated: after the message to the applicant the handler replies
\* "application rejected" in the creator's chat.
C31_RejectNotifiesApplicantOnly ==
    [][\A task \in Running("app_decision_callback", "update"), n_sent \in 0..2 :
          (task.act = "reject" /\ app_decision_update(task, n_sent))
          => {msg.to : msg \in outbox'} \subseteq {task.applicant_id}]_vars

\* C32: a decide on an application of game g leaves the applications and
\* the occupancy of every other game as they are, and a decide of the
\* creator on a pending application is taken up whatever decides are in
\* progress on other games
C32_DecidesOnOtherGamesIndependent ==
    [][/\ \A task \in BagToSet(tasks) :
             (/\ task.h = "app_decision_callback"
              /\ tasks' \in {Finished(task), Moved(task, "notify")})
             => /\ \A i \in DOMAIN game_applications :
                      game_applications[i].game_id # task.game_id
                      => game_applications'[i] = game_applications[i]
                /\ \A g \in DOMAIN games \ {task.game_id} :
                      get_game_occupancy(games', game_applications', g)
                        = get_game_occupancy(games, game_applications, g)
       /\ \A u \in Users, a \in DOMAIN game_applications, action \in Actions :
             (/\ app_decision_select(u, a, action)
              /\ u = games[game_applications[a].game_id].creator_id
              /\ game_applications[a].status = "pending")
             => /\ answer' = "-"
                /\ \E task \in BagToSet(tasks') :
                      /\ task.arg = a
                      /\ task.pc = "update"
                      /\ CopiesIn(task, tasks') = CopiesIn(task, tasks) + 1
      ]_vars

\* the application on game 1 has just been accepted and the creator was
\* answered while a decide on the application on game 2 is between its
\* read and its write
C32_Witness ==
    /\ Len(games) = 2
    /\ answer = "saved"
    /\ game_applications[1].status = "accepted"
    /\ game_applications[2].status = "pending"
    /\ \E task \in BagToSet(tasks) : task.game_id = 2 /\ task.pc = "update"

\* the games that match the filters of u's browsing, in the order of the
\* listing; text is the message u sends at the step looked at
MatchingGames(u, text) ==
    get_games_for_listing(games, u, fsm[u].data.filter_date,
        StoredTimeFilter(fsm[u].data),
        IF fsm[u].state = "ViewGames.browsing"
        THEN fsm[u].data.only_home = Some(TRUE)
        ELSE text = Word("Tolko domashnie korty") /\ user_home_courts[u] # {},
        Len(games), 0)

C34_NoAcceptUnlessScheduled ==
    [][\A a \in DOMAIN game_applications :
          (/\ game_applications[a].status # "accepted"
           /\ game_applications'[a].status = "accepted")
          => games[game_applications[a].game_id].status = "scheduled"]_vars

\* C35: every stored game that has an end time ends later than it starts,
\* on the same day: its match_end_time is a later time of day than its
\* match_time, whether the end was typed or came from a duration button
C35_EndAfterStartSameDay ==
    \A g \in DOMAIN games :
        games[g].match_end_time # None
        => Minutes(games[g].match_time) < Minutes(games[g].match_end_time[1])

C37_ApplicationsOnlyForPublicGames ==
    [][/\ \A i \in DOMAIN game_applications' :
             games'[game_applications'[i].game_id].visibility = "public"
       /\ \A u \in Users, g \in DOMAIN games :
             (games[g].visibility = "private" /\ apply_game_select_game(u, g))
             => (/\ answer' = "unavailable"
                 /\ tasks' = tasks
                 /\ game_applications' = game_applications)]_vars

\* C37 witness: a submit on a private game was just refused and the game has
\* no application
C37_Witness ==
    /\ answer = "unavailable"
    /\ \E g \in DOMAIN games :
          /\ games[g].visibility = "private"
          /\ games[g].is_active = 1
          /\ \A i \in DOMAIN game_applications : game_applications[i].game_id # g

\* the columns of a game the claim C38 names
Outcome(row) == <<row.status, row.score, row.is_active>>

\* C38: the status, score and is_active flag of a game change only in a
\* step of a cancel or a score entry issued by the game's creator; a cancel,
\* a press of the score button or a typed score by any other user leaves
\* them as they were and does not let that user into the score entry of
\* the game
C38_OnlyCreatorChangesOutcome ==
    [][/\ \A g \in DOMAIN games :
             Outcome(games'[g]) # Outcome(games[g])
             => \E u \in Users :
                   /\ games[g].creator_id = u
                   /\ \/ cancel_game_callback(u, g)
                      \/ \E s \in Scores : mygames_waiting_score_handler(u, s)
       /\ \A u \in Users, g \in DOMAIN games :
             (/\ games[g].creator_id # u
              /\ \/ cancel_game_callback(u, g)
                 \/ set_score_callback(u, g)
                 \/ \E s \in Scores : mygames_waiting_score_handler(u, s))
             => (/\ Outcome(games'[g]) = Outcome(games[g])
                 /\ ~ (/\ fsm'[u].state = "MyGames.waiting_score"
                       /\ fsm'[u].score_game_id = g))]_vars

\* C38 witness: a user who is not the creator has just pressed the score
\* button of a game, and the game is scheduled without a score still
C38_Witness ==
    /\ answer = "not_your_game"
    /\ \E g \in DOMAIN games :
          Outcome(games[g]) = <<"scheduled", NULL, 1>>

====
